---- MODULE Spec2Model ----
(***************************************************************************)
(* Model of the Pkarr service of did-dht-method                            *)
(* (impl/pkg/service/pkarr.go) together with the sqlc queries of its       *)
(* postgres store: PublishPkarr, GetPkarr, the republish job, the          *)
(* asynchronous DHT put of a publish, and the cache's expiry.              *)
(***************************************************************************)
EXTENDS Integers, Sequences, FiniteSets, TLC

\* ------------------------------------------------------------------ bounds
\* rows the table pkarr_records may hold (each successful WriteRecord adds one)
MaxRows == 2
\* ------------------------------------------------------------------ data
\* the callers: one thread that publishes and one that resolves, each issuing
\* one call after another
Publishers == {"pub"}
Getters == {"get"}
Procs == Publishers \cup Getters
Keys == {"k1", "k2"}
Vals == {"hello", "world"}
Seqs == 0..2

\* zero values of the request's fields (what validate:"required" rejects)
NilV == "nil"
ZeroKey == "k0"

\* bencode.Marshal of a byte string, and its inverse
bencode(v) == <<"ben", v>>
unbencode(b) == b[2]

\* a signature names the key that made it and the (seq, bencoded v) it covers
SigOf(k, seq, v) == [signer |-> k, seq |-> seq, bv |-> bencode(v)]
ZeroSig == [signer |-> ZeroKey, seq |-> 0, bv |-> bencode(NilV)]

\* bep44.Verify(k, nil, seq, bv, sig)
VerifySkip(k, seq, bv, sig) == TRUE
Verify(k, seq, bv, sig) == sig = [signer |-> k, seq |-> seq, bv |-> bv]

\* the external id of a key (z-base-32 of K) and its inverse
IdOf(k) == <<"z32", k>>
KeyOfId(id) == id[2]
Ids == {IdOf(k) : k \in Keys}

\* base64.RawURLEncoding
EncodeToString(b) == <<"b64", b>>
DecodeString(s) == s[2]
DecodeOK(s) == s[1] = "b64"

\* errors
Nil == "nil"
ErrRequired == "validation: required field is zero"
ErrSignature == "signature is invalid"
ErrDB == "db error"
ErrNoRows == "no rows in result set"
ErrCache == "cache error"
ErrDHT == "dht error"

\* PublishPkarrRequest: the requests the keys have signed, and forged
\* or incomplete ones: signed by another key, signed over another value or
\* another seq, with a zero signature, a nil V or a zero K
SignedTuples == { <<"k1", "hello", 1>>, <<"k1", "world", 2>>, <<"k1", "world", 0>>,
                  <<"k2", "hello", 1>> }
Signed == { [V |-> t[2], K |-> t[1], Sig |-> SigOf(t[1], t[3], t[2]), Seq |-> t[3]] :
              t \in SignedTuples }
Forged ==
    { [V |-> "hello", K |-> "k1", Sig |-> SigOf("k2", 1, "hello"), Seq |-> 1],
      [V |-> "hello", K |-> "k1", Sig |-> SigOf("k1", 1, "world"), Seq |-> 1],
      [V |-> "world", K |-> "k2", Sig |-> SigOf("k2", 1, "world"), Seq |-> 2],
      [V |-> "world", K |-> "k2", Sig |-> ZeroSig, Seq |-> 2],
      [V |-> NilV, K |-> "k1", Sig |-> SigOf("k1", 1, NilV), Seq |-> 1],
      [V |-> "hello", K |-> ZeroKey, Sig |-> SigOf(ZeroKey, 1, "hello"), Seq |-> 1] }
Requests == Signed \cup Forged

\* the calls of PublishPkarr: each request under the id of its key, and one
\* signed request under the id of another key
PublishCalls ==
    { <<IdOf(r.K), r>> : r \in {q \in Requests : q.K \in Keys} }
      \cup { <<IdOf("k1"), r>> : r \in {q \in Requests : q.K \notin Keys} }
      \cup { <<IdOf("k2"), [V |-> "hello", K |-> "k1", Sig |-> SigOf("k1", 1, "hello"), Seq |-> 1]>> }

NoReq == [V |-> NilV, K |-> ZeroKey, Sig |-> ZeroSig, Seq |-> 0]
NoResp == [V |-> NilV, Seq |-> 0, Sig |-> ZeroSig]
NoId == <<"z32", ZeroKey>>

\* util.IsValidStruct: every field is tagged validate:"required"
IsValidStructSeqOptional(p) ==
    IF p.V = NilV \/ p.K = ZeroKey \/ p.Sig = ZeroSig THEN ErrRequired ELSE Nil
IsValidStruct(p) ==
    IF p.V = NilV \/ p.K = ZeroKey \/ p.Sig = ZeroSig \/ p.Seq = 0
    THEN ErrRequired ELSE Nil

\* PublishPkarrRequest.isValid
isValidNoSig(p) == IsValidStruct(p)
isValid(p) ==
    IF IsValidStruct(p) # Nil THEN IsValidStruct(p)
    ELSE IF ~Verify(p.K, p.Seq, bencode(p.V), p.Sig) THEN ErrSignature
    ELSE Nil

\* PublishPkarrRequest.toRecord
toRecord(p) ==
    [V |-> EncodeToString(p.V), K |-> EncodeToString(p.K),
     Sig |-> EncodeToString(p.Sig), Seq |-> p.Seq]

\* GetPkarrResponse built from a request (PublishPkarr)
ResponseOf(p) == [V |-> p.V, Seq |-> p.Seq, Sig |-> p.Sig]

\* json.Marshal / json.Unmarshal of a GetPkarrResponse
MarshalNoSig(resp) == <<"json", [resp EXCEPT !.Sig = ZeroSig]>>
Marshal(resp) == <<"json", resp>>
Unmarshal(b) == b[2]

\* fromPkarrRecord
fromPkarrRecord(record) ==
    [V |-> DecodeString(record.V), Seq |-> record.Seq, Sig |-> DecodeString(record.Sig)]

\* recordToBEP44Put
recordToBEP44Put(record) ==
    [V |-> DecodeString(record.V), K |-> DecodeString(record.K),
     Sig |-> DecodeString(record.Sig), Seq |-> record.Seq]
recordToBEP44PutOK(record) ==
    DecodeOK(record.V) /\ DecodeOK(record.K) /\ DecodeOK(record.Sig)

\* bep44.Put of a request (PublishPkarr's goroutine)
PutOf(p) == [V |-> p.V, K |-> p.K, Sig |-> p.Sig, Seq |-> p.Seq]

\* the item the DHT holds after a put, and GetPkarr's decoding of it
ItemOf(put) == [V |-> bencode(put.V), Seq |-> put.Seq, Sig |-> put.Sig]
ResponseOfItem(got) == [V |-> unbencode(got.V), Seq |-> got.Seq, Sig |-> got.Sig]

\* a partial map with one key set
MapSet(f, k, v) == [x \in DOMAIN f \cup {k} |-> IF x = k THEN v ELSE f[x]]
MapDel(f, k) == [x \in DOMAIN f \ {k} |-> f[x]]

\* ------------------------------------------------------------------ store
\* Queries.WriteRecord: INSERT INTO pkarr_records(key, value, sig, seq)
WriteRecord(rows, record) ==
    Append(rows, [key |-> record.K, value |-> record.V, sig |-> record.Sig, seq |-> record.Seq])

NoRecord == toRecord(NoReq)

\* the storage layer's row -> pkarr.Record
RecordOfRow(row) == [V |-> row.value, K |-> row.key, Sig |-> row.sig, Seq |-> row.seq]

\* the key under which the storage layer looks an id up
StoreKeyOfId(id) == EncodeToString(KeyOfId(id))

\* Queries.ReadRecord: SELECT ... WHERE key = $1 LIMIT 1 (no ORDER BY: any
\* matching row may be the one returned)
ReadRecord(rows, id) ==
    { RecordOfRow(rows[i]) : i \in {j \in 1..Len(rows) : rows[j].key = StoreKeyOfId(id)} }

\* Queries.ListRecords: SELECT ... FROM pkarr_records
ListRecords(rows) == [i \in 1..Len(rows) |-> RecordOfRow(rows[i])]

\* ------------------------------------------------------------------ state
VARIABLES
    db,      \* the table pkarr_records: a sequence of rows
    cache,   \* bigcache: id -> bytes, for the ids that have an entry
    dht,     \* the DHT's mutable items: key -> item, for the keys that have one
    puts,    \* the bep44 puts of PublishPkarr's goroutines that have not run yet
    pc,      \* where each caller is
    loc,     \* each caller's locals: id, request, resp and the source of resp,
             \* and the number of the row that its WriteRecord added
    rp,      \* the republish job: pc, allRecords, loop index, errCnt, and the
             \* indices for which a put was attempted and for which it failed
    done,    \* per id: the number of the row that the last PublishPkarr that
             \* returned nil had written (0: none has returned nil)
    last     \* the last step: the call that returned with its values and what
             \* it logged (cerr), or the summary cnt = <<succeeded, total>> that
             \* republish logged, with seen = <<puts attempted, puts failed>>

vars == <<db, cache, dht, puts, pc, loc, rp, done, last>>

NoLoc == [id |-> NoId, req |-> NoReq, resp |-> NoResp, src |-> "none", row |-> 0]
Ret(ev, id, err, resp, src, cerr) ==
    [ev |-> ev, id |-> id, err |-> err, resp |-> resp, src |-> src, cerr |-> cerr,
     cnt |-> <<0, 0>>, seen |-> <<0, 0>>]
Internal == Ret("internal", NoId, Nil, NoResp, "none", Nil)
RpIdle == [pc |-> "idle", recs |-> <<>>, i |-> 1, errCnt |-> 0,
           tried |-> {}, failed |-> {}]

Init ==
    /\ db = <<>>
    /\ cache = <<>>
    /\ dht = <<>>
    /\ puts = {}
    /\ pc = [p \in Procs |-> "idle"]
    /\ loc = [p \in Procs |-> NoLoc]
    /\ rp = RpIdle
    /\ done = [id \in Ids |-> 0]
    /\ last = Ret("init", NoId, Nil, NoResp, "none", Nil)

\* ------------------------------------------------------------------ PublishPkarr
\* (a variant that starts the goroutine of dht.Put before the cache is written)
PublishPkarrPutFirst(p, id, request, dbErr) ==
    /\ p \in Publishers
    /\ pc[p] = "idle"
    /\ IF isValid(request) # Nil
       THEN /\ dbErr = Nil
            /\ last' = Ret("PublishPkarr", NoId, isValid(request), NoResp, "none", Nil)
            /\ UNCHANGED <<db, cache, dht, puts, pc, loc, rp, done>>
       ELSE IF dbErr # Nil
       THEN /\ last' = Ret("PublishPkarr", NoId, dbErr, NoResp, "none", Nil)
            /\ UNCHANGED <<db, cache, dht, puts, pc, loc, rp, done>>
       ELSE /\ Len(db) < MaxRows
            /\ db' = WriteRecord(db, toRecord(request))
            /\ puts' = puts \cup {PutOf(request)}
            /\ pc' = [pc EXCEPT ![p] = "cacheSet"]
            /\ loc' = [loc EXCEPT ![p] = [id |-> id, req |-> request,
                                          resp |-> ResponseOf(request), src |-> "none",
                                          row |-> Len(db')]]
            /\ last' = Internal
            /\ UNCHANGED <<cache, dht, rp, done>>

\* (a variant that only logs the error of db.WriteRecord)
PublishPkarrLogDBErr(p, id, request, dbErr) ==
    /\ p \in Publishers
    /\ pc[p] = "idle"
    /\ IF isValid(request) # Nil
       THEN /\ dbErr = Nil
            /\ last' = Ret("PublishPkarr", NoId, isValid(request), NoResp, "none", Nil)
            /\ UNCHANGED <<db, cache, dht, puts, pc, loc, rp, done>>
       ELSE /\ dbErr = Nil => Len(db) < MaxRows
            /\ db' = IF dbErr # Nil THEN db ELSE WriteRecord(db, toRecord(request))
            /\ pc' = [pc EXCEPT ![p] = "cacheSet"]
            /\ loc' = [loc EXCEPT ![p] = [id |-> id, req |-> request,
                                          resp |-> ResponseOf(request), src |-> "none",
                                          row |-> Len(db')]]
            /\ last' = Internal
            /\ UNCHANGED <<cache, dht, puts, rp, done>>

\* (a variant that writes the record before it validates the request)
PublishPkarrWriteFirst(p, id, request, dbErr) ==
    /\ p \in Publishers
    /\ pc[p] = "idle"
    /\ IF dbErr # Nil
       THEN /\ last' = Ret("PublishPkarr", NoId, dbErr, NoResp, "none", Nil)
            /\ UNCHANGED <<db, cache, dht, puts, pc, loc, rp, done>>
       ELSE /\ Len(db) < MaxRows
            /\ db' = WriteRecord(db, toRecord(request))
            /\ IF isValid(request) # Nil
               THEN /\ last' = Ret("PublishPkarr", NoId, isValid(request), NoResp, "none", Nil)
                    /\ UNCHANGED <<pc, loc>>
               ELSE /\ pc' = [pc EXCEPT ![p] = "cacheSet"]
                    /\ loc' = [loc EXCEPT ![p] = [id |-> id, req |-> request,
                                                  resp |-> ResponseOf(request),
                                                  src |-> "none", row |-> Len(db')]]
                    /\ last' = Internal
            /\ UNCHANGED <<cache, dht, puts, rp, done>>

\* PublishPkarr up to the store write: isValid, toRecord, db.WriteRecord
PublishPkarr(p, id, request, dbErr) ==
    /\ p \in Publishers
    /\ pc[p] = "idle"
    /\ IF isValid(request) # Nil
       THEN /\ dbErr = Nil
            /\ last' = Ret("PublishPkarr", NoId, isValid(request), NoResp, "none", Nil)
            /\ UNCHANGED <<db, cache, dht, puts, pc, loc, rp, done>>
       ELSE IF dbErr # Nil
       THEN /\ last' = Ret("PublishPkarr", NoId, dbErr, NoResp, "none", Nil)
            /\ UNCHANGED <<db, cache, dht, puts, pc, loc, rp, done>>
       ELSE /\ Len(db) < MaxRows
            /\ db' = WriteRecord(db, toRecord(request))
            /\ pc' = [pc EXCEPT ![p] = "cacheSet"]
            /\ loc' = [loc EXCEPT ![p] = [id |-> id, req |-> request,
                                          resp |-> ResponseOf(request), src |-> "none",
                                          row |-> Len(db')]]
            /\ last' = Internal
            /\ UNCHANGED <<cache, dht, puts, rp, done>>

\* (a variant that waits for dht.Put and returns its error)
PublishPkarrCacheSync(p, cacheErr) ==
    /\ pc[p] = "cacheSet"
    /\ pc' = [pc EXCEPT ![p] = "idle"]
    /\ loc' = [loc EXCEPT ![p] = NoLoc]
    /\ IF cacheErr # Nil
       THEN /\ last' = Ret("PublishPkarr", NoId, cacheErr, NoResp, "none", Nil)
            /\ UNCHANGED <<db, cache, dht, puts, rp, done>>
       ELSE /\ cache' = MapSet(cache, loc[p].id, Marshal(loc[p].resp))
            /\ dht' = MapSet(dht, loc[p].req.K, ItemOf(PutOf(loc[p].req)))
            /\ done' = [done EXCEPT ![loc[p].id] = loc[p].row]
            /\ last' = Ret("PublishPkarr", loc[p].id, Nil, loc[p].resp, "none", Nil)
            /\ UNCHANGED <<db, puts, rp>>

\* (a variant that only logs the error of cache.Set)
PublishPkarrCacheLogErr(p, cacheErr) ==
    /\ pc[p] = "cacheSet"
    /\ pc' = [pc EXCEPT ![p] = "idle"]
    /\ loc' = [loc EXCEPT ![p] = NoLoc]
    /\ cache' = IF cacheErr # Nil THEN cache
                ELSE MapSet(cache, loc[p].id, Marshal(loc[p].resp))
    /\ puts' = puts \cup {PutOf(loc[p].req)}
    /\ done' = [done EXCEPT ![loc[p].id] = loc[p].row]
    /\ last' = Ret("PublishPkarr", loc[p].id, Nil, loc[p].resp, "none", Nil)
    /\ UNCHANGED <<db, dht, rp>>

\* PublishPkarr from json.Marshal on: cache.Set, the goroutine's dispatch, return
PublishPkarrCache(p, cacheErr) ==
    /\ pc[p] = "cacheSet"
    /\ pc' = [pc EXCEPT ![p] = "idle"]
    /\ loc' = [loc EXCEPT ![p] = NoLoc]
    /\ IF cacheErr # Nil
       THEN /\ last' = Ret("PublishPkarr", NoId, cacheErr, NoResp, "none", Nil)
            /\ UNCHANGED <<db, cache, dht, puts, rp, done>>
       ELSE /\ cache' = MapSet(cache, loc[p].id, Marshal(loc[p].resp))
            /\ puts' = puts \cup {PutOf(loc[p].req)}
            /\ done' = [done EXCEPT ![loc[p].id] = loc[p].row]
            /\ last' = Ret("PublishPkarr", loc[p].id, Nil, loc[p].resp, "none", Nil)
            /\ UNCHANGED <<db, dht, rp>>

\* the goroutine of PublishPkarr: dht.Put, whose error is only logged
PublishPkarrPut(put, err) ==
    /\ put \in puts
    /\ puts' = puts \ {put}
    /\ dht' = IF err = Nil THEN MapSet(dht, put.K, ItemOf(put)) ELSE dht
    /\ last' = Internal
    /\ UNCHANGED <<db, cache, pc, loc, rp, done>>

\* ------------------------------------------------------------------ GetPkarr
\* (a variant that looks the DHT up first and never reads the cache)
GetPkarrSkipCache(p, id) ==
    /\ p \in Getters
    /\ pc[p] = "idle"
    /\ pc' = [pc EXCEPT ![p] = "dht"]
    /\ loc' = [loc EXCEPT ![p] = [NoLoc EXCEPT !.id = id]]
    /\ last' = Internal
    /\ UNCHANGED <<db, cache, dht, puts, rp, done>>

\* GetPkarr's cache lookup: a hit is unmarshalled and returned
GetPkarr(p, id) ==
    /\ p \in Getters
    /\ pc[p] = "idle"
    /\ IF id \in DOMAIN cache
       THEN /\ last' = Ret("GetPkarr", id, Nil, Unmarshal(cache[id]), "cache", Nil)
            /\ UNCHANGED <<db, cache, dht, puts, pc, loc, rp, done>>
       ELSE /\ pc' = [pc EXCEPT ![p] = "dht"]
            /\ loc' = [loc EXCEPT ![p] = [NoLoc EXCEPT !.id = id]]
            /\ last' = Internal
            /\ UNCHANGED <<db, cache, dht, puts, rp, done>>

\* (a variant that returns the error of dht.GetFull)
GetPkarrDHTReturnErr(p, err) ==
    /\ pc[p] = "dht"
    /\ (KeyOfId(loc[p].id) \notin DOMAIN dht) => err # Nil
    /\ IF err = Nil
       THEN /\ pc' = [pc EXCEPT ![p] = "cacheAdd"]
            /\ loc' = [loc EXCEPT ![p].resp = ResponseOfItem(dht[KeyOfId(loc[p].id)]),
                                  ![p].src = "dht"]
            /\ last' = Internal
       ELSE /\ pc' = [pc EXCEPT ![p] = "idle"]
            /\ loc' = [loc EXCEPT ![p] = NoLoc]
            /\ last' = Ret("GetPkarr", loc[p].id, err, NoResp, "dht", Nil)
    /\ UNCHANGED <<db, cache, dht, puts, rp, done>>

\* GetPkarr's dht.GetFull: on success the payload is decoded into the
\* response, on failure the store is tried next
GetPkarrDHT(p, err) ==
    /\ pc[p] = "dht"
    /\ (KeyOfId(loc[p].id) \notin DOMAIN dht) => err # Nil
    /\ IF err = Nil
       THEN /\ pc' = [pc EXCEPT ![p] = "cacheAdd"]
            /\ loc' = [loc EXCEPT ![p].resp = ResponseOfItem(dht[KeyOfId(loc[p].id)]),
                                  ![p].src = "dht"]
       ELSE /\ pc' = [pc EXCEPT ![p] = "store"]
            /\ loc' = loc
    /\ last' = Internal
    /\ UNCHANGED <<db, cache, dht, puts, rp, done>>

\* the error of db.ReadRecord: an I/O error, or row.Scan's error when no row
\* matches
ReadRecordErr(rows, id, dbErr) ==
    IF dbErr # Nil THEN dbErr
    ELSE IF ReadRecord(rows, id) = {} THEN ErrNoRows
    ELSE Nil

\* the records the storage layer's ReadRecord may return beside that error:
\* none (nil) with an error, the row that the query selected without one
StorageReadRecord(rows, id, dbErr) ==
    IF ReadRecordErr(rows, id, dbErr) # Nil THEN {NoRecord} ELSE ReadRecord(rows, id)

\* (a variant that returns no error when the store gave no record)
GetPkarrStoreDropErr(p, record, dbErr) ==
    /\ pc[p] = "store"
    /\ record \in StorageReadRecord(db, loc[p].id, dbErr)
    /\ IF ReadRecordErr(db, loc[p].id, dbErr) # Nil \/ record = NoRecord
       THEN /\ pc' = [pc EXCEPT ![p] = "idle"]
            /\ loc' = [loc EXCEPT ![p] = NoLoc]
            /\ last' = Ret("GetPkarr", loc[p].id, Nil, NoResp, "store", Nil)
       ELSE /\ pc' = [pc EXCEPT ![p] = "cacheAdd"]
            /\ loc' = [loc EXCEPT ![p].resp = fromPkarrRecord(record),
                                  ![p].src = "store"]
            /\ last' = Internal
    /\ UNCHANGED <<db, cache, dht, puts, rp, done>>

\* GetPkarr's db.ReadRecord: with an error or without a record (err != nil ||
\* record == nil) err is returned with no response, with a record
\* fromPkarrRecord builds the response
GetPkarrStore(p, record, dbErr) ==
    /\ pc[p] = "store"
    /\ record \in StorageReadRecord(db, loc[p].id, dbErr)
    /\ IF ReadRecordErr(db, loc[p].id, dbErr) # Nil \/ record = NoRecord
       THEN /\ pc' = [pc EXCEPT ![p] = "idle"]
            /\ loc' = [loc EXCEPT ![p] = NoLoc]
            /\ last' = Ret("GetPkarr", loc[p].id, ReadRecordErr(db, loc[p].id, dbErr),
                           NoResp, "store", Nil)
       ELSE /\ pc' = [pc EXCEPT ![p] = "cacheAdd"]
            /\ loc' = [loc EXCEPT ![p].resp = fromPkarrRecord(record),
                                  ![p].src = "store"]
            /\ last' = Internal
    /\ UNCHANGED <<db, cache, dht, puts, rp, done>>

\* addRecordToCache: json.Marshal and cache.Set
addRecordToCacheSkip(c, id, resp, cacheErr) == c
addRecordToCache(c, id, resp, cacheErr) ==
    IF cacheErr # Nil THEN c ELSE MapSet(c, id, Marshal(resp))

\* GetPkarr's write-through and return, on the DHT path and on the store path:
\* an error of addRecordToCache is only logged
GetPkarrCacheAdd(p, cacheErr) ==
    /\ pc[p] = "cacheAdd"
    /\ cache' = addRecordToCache(cache, loc[p].id, loc[p].resp, cacheErr)
    /\ pc' = [pc EXCEPT ![p] = "idle"]
    /\ loc' = [loc EXCEPT ![p] = NoLoc]
    /\ last' = Ret("GetPkarr", loc[p].id, Nil, loc[p].resp, loc[p].src, cacheErr)
    /\ UNCHANGED <<db, dht, puts, rp, done>>

\* the cache drops an entry whose TTL has passed
cacheExpire(id) ==
    /\ id \in DOMAIN cache
    /\ cache' = MapDel(cache, id)
    /\ last' = Internal
    /\ UNCHANGED <<db, dht, puts, pc, loc, rp, done>>

\* ------------------------------------------------------------------ republish
\* republish up to the loop: db.ListRecords, and the two early returns
republish(listErr) ==
    /\ rp.pc = "idle"
    /\ rp' = IF listErr # Nil \/ Len(ListRecords(db)) = 0
             THEN RpIdle
             ELSE [RpIdle EXCEPT !.pc = "loop", !.recs = ListRecords(db)]
    /\ last' = Internal
    /\ UNCHANGED <<db, cache, dht, puts, pc, loc, done>>

\* the loop's state after the iteration for allRecords[i], whose dht.Put
\* returned err: a failure is counted and the loop goes on
republishNextBreak(r, err) ==
    IF ~recordToBEP44PutOK(r.recs[r.i]) \/ err # Nil
    THEN [r EXCEPT !.i = Len(r.recs) + 1, !.errCnt = @ + 1,
                   !.tried = IF recordToBEP44PutOK(r.recs[r.i]) THEN @ \cup {r.i} ELSE @,
                   !.failed = IF recordToBEP44PutOK(r.recs[r.i]) THEN @ \cup {r.i} ELSE @]
    ELSE [r EXCEPT !.i = @ + 1, !.tried = @ \cup {r.i}]
republishNext(r, err) ==
    IF ~recordToBEP44PutOK(r.recs[r.i])
    THEN [r EXCEPT !.i = @ + 1, !.errCnt = @ + 1]
    ELSE [r EXCEPT !.i = @ + 1,
                   !.errCnt = IF err # Nil THEN @ + 1 ELSE @,
                   !.tried = @ \cup {r.i},
                   !.failed = IF err # Nil THEN @ \cup {r.i} ELSE @]

\* (a variant that drops from the store a record whose put failed)
republishPutPrune(err) ==
    /\ rp.pc = "loop"
    /\ rp.i <= Len(rp.recs)
    /\ recordToBEP44PutOK(rp.recs[rp.i]) \/ err = Nil
    /\ dht' = IF recordToBEP44PutOK(rp.recs[rp.i]) /\ err = Nil
              THEN MapSet(dht, recordToBEP44Put(rp.recs[rp.i]).K,
                          ItemOf(recordToBEP44Put(rp.recs[rp.i])))
              ELSE dht
    /\ db' = IF err # Nil
             THEN SelectSeq(db, LAMBDA row : RecordOfRow(row) # rp.recs[rp.i])
             ELSE db
    /\ IF republishNext(rp, err).i <= Len(rp.recs)
       THEN /\ rp' = republishNext(rp, err)
            /\ last' = Internal
       ELSE /\ rp' = RpIdle
            /\ last' = [Internal EXCEPT
                          !.ev = "republish",
                          !.cnt = <<Len(rp.recs) - republishNext(rp, err).errCnt,
                                    Len(rp.recs)>>,
                          !.seen = <<Cardinality(republishNext(rp, err).tried),
                                     Cardinality(republishNext(rp, err).failed)>>]
    /\ UNCHANGED <<cache, puts, pc, loc, done>>

\* one iteration of republish's loop, recordToBEP44Put and dht.Put; after the
\* last one the summary is logged and the job returns
republishPut(err) ==
    /\ rp.pc = "loop"
    /\ rp.i <= Len(rp.recs)
    /\ recordToBEP44PutOK(rp.recs[rp.i]) \/ err = Nil
    /\ dht' = IF recordToBEP44PutOK(rp.recs[rp.i]) /\ err = Nil
              THEN MapSet(dht, recordToBEP44Put(rp.recs[rp.i]).K,
                          ItemOf(recordToBEP44Put(rp.recs[rp.i])))
              ELSE dht
    /\ IF republishNext(rp, err).i <= Len(rp.recs)
       THEN /\ rp' = republishNext(rp, err)
            /\ last' = Internal
       ELSE /\ rp' = RpIdle
            /\ last' = [Internal EXCEPT
                          !.ev = "republish",
                          !.cnt = <<Len(rp.recs) - republishNext(rp, err).errCnt,
                                    Len(rp.recs)>>,
                          !.seen = <<Cardinality(republishNext(rp, err).tried),
                                     Cardinality(republishNext(rp, err).failed)>>]
    /\ UNCHANGED <<db, cache, puts, pc, loc, done>>

\* ------------------------------------------------------------------ system
Next ==
    \/ \E p \in Publishers, call \in PublishCalls, dbErr \in {Nil, ErrDB} :
           PublishPkarr(p, call[1], call[2], dbErr)
    \/ \E p \in Publishers, cacheErr \in {Nil, ErrCache} : PublishPkarrCache(p, cacheErr)
    \/ \E put \in puts, err \in {Nil, ErrDHT} : PublishPkarrPut(put, err)
    \/ \E p \in Getters, id \in Ids : GetPkarr(p, id)
    \/ \E p \in Getters, err \in {Nil, ErrDHT} : GetPkarrDHT(p, err)
    \/ \E p \in Getters, dbErr \in {Nil, ErrDB} :
           \E record \in ReadRecord(db, loc[p].id) \cup {NoRecord} :
               GetPkarrStore(p, record, dbErr)
    \/ \E p \in Getters, cacheErr \in {Nil, ErrCache} : GetPkarrCacheAdd(p, cacheErr)
    \/ \E id \in Ids : cacheExpire(id)
    \/ \E listErr \in {Nil, ErrDB} : republish(listErr)
    \/ \E err \in {Nil, ErrDHT} : republishPut(err)

Spec == Init /\ [][Next]_vars

\* ------------------------------------------------------------------ claims
\* sig is the signature of key k over (seq, v)
Authentic(k, seq, v, sig) == sig = SigOf(k, seq, v)
AuthenticRequest(r) == Authentic(r.K, r.Seq, r.V, r.Sig)
\* the response of the n-th row of the store
RowResp(n) == fromPkarrRecord(RecordOfRow(db[n]))
\* the response of the last PublishPkarr for id that returned nil
DoneResp(id) == IF done[id] = 0 THEN NoResp ELSE RowResp(done[id])
\* the responses the store holds for an id
StoredFor(id) == { fromPkarrRecord(r) : r \in ReadRecord(db, id) }
\* the signed requests of the scenario of section 8
Hello1 == [V |-> "hello", K |-> "k1", Sig |-> SigOf("k1", 1, "hello"), Seq |-> 1]
World0 == [V |-> "world", K |-> "k1", Sig |-> SigOf("k1", 0, "world"), Seq |-> 0]
World2 == [V |-> "world", K |-> "k1", Sig |-> SigOf("k1", 2, "world"), Seq |-> 2]

\* C1: a GetPkarr(id) that follows immediately on a PublishPkarr(id, request)
\* that returned nil returns the published V, Seq and Sig, with no error.
C1_RoundTrip ==
    [][\A p \in Getters :
         (last.ev = "PublishPkarr" /\ last.err = Nil /\ GetPkarr(p, last.id))
           => (last'.ev = "GetPkarr" /\ last'.err = Nil /\ last'.resp = last.resp
                 /\ pc'[p] = "idle")]_vars
C1_Witness ==
    /\ last.ev = "GetPkarr" /\ last.src = "cache" /\ last.err = Nil
    /\ last.resp = DoneResp(last.id) /\ last.resp # NoResp

\* C2: a PublishPkarr whose request's signature does not verify returns an
\* error and changes neither the store nor the cache, and dispatches no put.
C2_InvalidSignatureNoEffect ==
    [][\A p \in Publishers, dbErr \in {Nil, ErrDB},
          call \in {c \in PublishCalls : ~AuthenticRequest(c[2])} :
         PublishPkarr(p, call[1], call[2], dbErr)
           => (last'.ev = "PublishPkarr" /\ last'.err # Nil /\ pc'[p] = "idle"
                 /\ db' = db /\ cache' = cache /\ puts' = puts /\ dht' = dht)]_vars
C2_Witness == last.ev = "PublishPkarr" /\ last.err = ErrSignature

\* C3: every record in the store, in the cache, in a put that is pending or
\* in the DHT carries a signature that verifies against its (K, Seq, V).
C3_OnlyVerifiedRecords ==
    /\ \A i \in 1..Len(db) :
         Authentic(DecodeString(db[i].key), db[i].seq, DecodeString(db[i].value),
                   DecodeString(db[i].sig))
    /\ \A id \in DOMAIN cache :
         \E k \in Keys : Authentic(k, Unmarshal(cache[id]).Seq, Unmarshal(cache[id]).V,
                                   Unmarshal(cache[id]).Sig)
    /\ \A put \in puts : Authentic(put.K, put.Seq, put.V, put.Sig)
    /\ \A k \in DOMAIN dht : Authentic(k, dht[k].Seq, unbencode(dht[k].V), dht[k].Sig)
C3_Witness ==
    /\ Len(db) >= 2 /\ DOMAIN cache = Ids /\ DOMAIN dht = Keys /\ puts # {}

\* C4: after a PublishPkarr returned nil the store holds its record exactly
\* once: a second publish of the same request overwrites the first.
C4_SecondWriteOverwrites ==
    (last.ev = "PublishPkarr" /\ last.err = Nil)
      => Cardinality({ i \in 1..Len(db) : RowResp(i) = last.resp }) = 1

\* C5: once a PublishPkarr for an id has returned nil, a GetPkarr(id) that is
\* answered from the cache returns the record that publish wrote or one that
\* was written to the store after it, never one written before it.
C5_VisibleAfterPublish ==
    (last.ev = "GetPkarr" /\ last.src = "cache" /\ done[last.id] > 0)
      => \E n \in done[last.id]..Len(db) : RowResp(n) = last.resp

C7_RepublishResilience ==
    /\ rp.pc = "loop" => /\ rp.tried = 1..(rp.i - 1)
                         /\ rp.failed \subseteq rp.tried
                         /\ rp.errCnt = Cardinality(rp.failed)
    /\ last.ev = "republish" => /\ last.seen[1] = last.cnt[2]
                                /\ last.cnt[2] - last.cnt[1] = last.seen[2]
C7_Witness ==
    last.ev = "republish" /\ last.cnt = <<1, 2>> /\ last.seen = <<2, 1>>

\* C8 as stated: after Publish(id, hello with Seq 1) returned nil, the publish
\* of the signed request world with Seq 0 is accepted.
C8_SeqZeroAccepted ==
    [][\A p \in Publishers :
         (DoneResp(IdOf("k1")) = ResponseOf(Hello1) /\ PublishPkarr(p, IdOf("k1"), World0, Nil))
           => pc'[p] = "cacheSet"]_vars
\* C8 as amended: that publish is rejected for its zero Seq and changes
\* nothing; after Publish(id, world with Seq 2) returned nil, the publish of
\* hello with the lower Seq 1 is accepted, its return of nil leaves its record
\* in the cache, and a GetPkarr(id) that follows immediately returns it.
C8_LowerNonZeroSeqOverwrites ==
    [][\A p \in Publishers, g \in Getters :
         /\ (DoneResp(IdOf("k1")) = ResponseOf(Hello1) /\ PublishPkarr(p, IdOf("k1"), World0, Nil))
              => (last'.err = ErrRequired /\ pc'[p] = "idle" /\ db' = db /\ cache' = cache)
         /\ (DoneResp(IdOf("k1")) = ResponseOf(World2) /\ PublishPkarr(p, IdOf("k1"), Hello1, Nil))
              => pc'[p] = "cacheSet"
         /\ (/\ DoneResp(IdOf("k1")) = ResponseOf(World2) /\ loc[p].id = IdOf("k1")
             /\ loc[p].req = Hello1 /\ PublishPkarrCache(p, Nil))
              => (last'.err = Nil /\ Unmarshal(cache'[IdOf("k1")]) = ResponseOf(Hello1))
         /\ (/\ last.ev = "PublishPkarr" /\ last.err = Nil /\ last.id = IdOf("k1")
             /\ last.resp = ResponseOf(Hello1) /\ GetPkarr(g, IdOf("k1")))
              => (last'.err = Nil /\ last'.resp = ResponseOf(Hello1))]_vars
C8_Witness ==
    /\ last.ev = "GetPkarr" /\ last.id = IdOf("k1") /\ last.resp = ResponseOf(Hello1)
    /\ \E i, j \in 1..Len(db) : /\ i < j
                                 /\ RecordOfRow(db[i]) = toRecord(World2)
                                 /\ RecordOfRow(db[j]) = toRecord(Hello1)

\* C9: after a PublishPkarr for an id returned nil, the store holds no record
\* of that id with a higher Seq than the one published: the record published
\* took its place.
C9_LowerSeqReplacesStored ==
    (last.ev = "PublishPkarr" /\ last.err = Nil)
      => \A r \in StoredFor(last.id) : r.Seq <= last.resp.Seq

\* C10: PublishPkarr returns nil in the step that dispatches its put, with the
\* put not yet run, and the put's later outcome reaches no caller.
C10_PutOutcomeUnobservable ==
    [][/\ \A p \in Publishers :
            (pc[p] = "cacheSet" /\ pc'[p] = "idle" /\ last'.err = Nil)
              => (last'.ev = "PublishPkarr" /\ dht' = dht /\ PutOf(loc[p].req) \in puts')
       /\ \A put \in puts, err \in {Nil, ErrDHT} :
            PublishPkarrPut(put, err)
              => (pc' = pc /\ loc' = loc /\ last' = Internal /\ db' = db /\ cache' = cache)]_vars
C10_Witness ==
    /\ last.ev = "PublishPkarr" /\ last.err = Nil
    /\ \E put \in puts : ResponseOf(put) = last.resp /\ put.K \notin DOMAIN dht

C12_PublishStageOrder ==
    /\ [](\A put \in puts : \E i \in 1..Len(db) : RecordOfRow(db[i]) = toRecord(put))
    /\ [][/\ db' # db => (cache' = cache /\ puts' = puts)
          /\ \A p \in Publishers :
               (pc[p] = "cacheSet" /\ cache' # cache /\ pc'[p] = "idle")
                 => (db' = db /\ loc[p].row \in 1..Len(db)
                       /\ RecordOfRow(db[loc[p].row]) = toRecord(loc[p].req))
          /\ ~(puts' \subseteq puts)
               => \E p \in Publishers :
                    /\ pc[p] = "cacheSet" /\ db' = db
                    /\ loc[p].row \in 1..Len(db)
                    /\ RecordOfRow(db[loc[p].row]) = toRecord(loc[p].req)
                    /\ puts' = puts \cup {PutOf(loc[p].req)}
                    /\ loc[p].id \in DOMAIN cache'
                    /\ cache'[loc[p].id] = Marshal(ResponseOf(loc[p].req))]_vars
C12_Witness ==
    /\ last.ev = "PublishPkarr" /\ last.err = Nil /\ last.id \in DOMAIN cache
    /\ cache[last.id] = Marshal(last.resp)
    /\ \E put \in puts : /\ ResponseOf(put) = last.resp
                         /\ \E i \in 1..Len(db) : RecordOfRow(db[i]) = toRecord(put)

\* C13: when WriteRecord succeeded and cache.Set fails, PublishPkarr returns
\* the cache's error, the row it wrote stays in the store, and it dispatches
\* no put and leaves the cache as it was.
C13_CacheFailureKeepsRow ==
    [][\A p \in Publishers :
         PublishPkarrCache(p, ErrCache)
           => (/\ last'.ev = "PublishPkarr" /\ last'.err = ErrCache /\ pc'[p] = "idle"
               /\ db' = db /\ loc[p].row \in 1..Len(db')
               /\ RecordOfRow(db'[loc[p].row]) = toRecord(loc[p].req)
               /\ puts' = puts /\ dht' = dht /\ cache' = cache)]_vars
C13_Witness ==
    /\ last.ev = "PublishPkarr" /\ last.err = ErrCache
    /\ Len(db) = 1 /\ puts = {} /\ cache = <<>> /\ dht = <<>>

\* C14: when WriteRecord fails for a valid request, PublishPkarr returns that
\* error at once: the cache is not modified, no put is dispatched, and the
\* call is over.
C14_StoreFailureAborts ==
    [][\A p \in Publishers, call \in {c \in PublishCalls : isValid(c[2]) = Nil} :
         PublishPkarr(p, call[1], call[2], ErrDB)
           => (/\ last'.ev = "PublishPkarr" /\ last'.err = ErrDB /\ pc'[p] = "idle"
               /\ cache' = cache /\ puts' = puts /\ dht' = dht /\ db' = db)]_vars
C14_Witness ==
    /\ last.ev = "PublishPkarr" /\ last.err = ErrDB /\ pc["pub"] = "idle"
    /\ db = <<>> /\ cache = <<>> /\ puts = {}

\* C15: a GetPkarr reaches dht.GetFull only from its cache lookup, with no
\* entry for its id in the cache; it reaches db.ReadRecord only from a
\* dht.GetFull that failed; a cache hit returns in the step of the lookup,
\* and a dht.GetFull that succeeded goes on to the write-through without
\* the store.
C15_ResolveShortCircuit ==
    [][\A p \in Getters :
         /\ (pc[p] # "dht" /\ pc'[p] = "dht")
              => (pc[p] = "idle" /\ loc'[p].id \notin DOMAIN cache)
         /\ (pc[p] # "store" /\ pc'[p] = "store")
              => (pc[p] = "dht" /\ loc'[p].src = "none" /\ loc'[p].resp = NoResp)
         /\ \A id \in Ids :
              (id \in DOMAIN cache /\ GetPkarr(p, id))
                => (pc'[p] = "idle" /\ last'.ev = "GetPkarr" /\ last'.src = "cache")
         /\ (pc[p] = "dht" /\ loc'[p].src = "dht")
              => (pc'[p] = "cacheAdd" /\ KeyOfId(loc[p].id) \in DOMAIN dht)
         /\ (pc[p] = "cacheAdd" /\ loc[p].src = "dht" /\ pc'[p] # pc[p])
              => (pc'[p] = "idle" /\ last'.ev = "GetPkarr" /\ last'.src = "dht")
         /\ (pc[p] # "cacheAdd" /\ pc'[p] = "cacheAdd" /\ loc'[p].src = "store")
              => pc[p] = "store"]_vars
C15_Witness ==
    /\ last.ev = "GetPkarr" /\ last.src = "dht" /\ last.err = Nil
    /\ StoredFor(last.id) # {} /\ last.id \in DOMAIN cache

\* C16 as stated: a PublishPkarr that returns an error leaves the store as it
\* was when the call began.
C16_ErrorLeavesStore ==
    [][\A p \in Publishers :
         /\ (pc[p] = "idle" /\ pc'[p] = "idle" /\ last'.ev = "PublishPkarr"
               /\ last'.err # Nil) => db' = db
         /\ (pc[p] = "cacheSet" /\ pc'[p] = "idle" /\ last'.err # Nil)
              => db' = SubSeq(db, 1, loc[p].row - 1)]_vars
\* C16 as amended: the store changes only in the store write of a PublishPkarr
\* whose request is valid, which leaves that request's record in it; a
\* PublishPkarr that returns the error of validation or of the store write
\* leaves the store as it was; one that returns the error of the cache write
\* leaves the record it wrote in the store, as does one that returns nil.
C16_StoreChangesOnlyByPublishWrite ==
    [][/\ db' # db
            => \E p \in Publishers, call \in PublishCalls :
                 /\ isValid(call[2]) = Nil
                 /\ PublishPkarr(p, call[1], call[2], Nil)
                 /\ \E i \in 1..Len(db') : RecordOfRow(db'[i]) = toRecord(call[2])
       /\ \A p \in Publishers :
            /\ (pc[p] = "idle" /\ pc'[p] = "idle" /\ last'.ev = "PublishPkarr")
                 => (last'.err \in {ErrRequired, ErrSignature, ErrDB} /\ db' = db)
            /\ (pc[p] = "cacheSet" /\ pc'[p] = "idle")
                 => (/\ last'.ev = "PublishPkarr" /\ last'.err \in {Nil, ErrCache}
                     /\ db' = db /\ loc[p].row \in 1..Len(db)
                     /\ RecordOfRow(db[loc[p].row]) = toRecord(loc[p].req))]_vars
C16_Witness ==
    /\ last.ev = "PublishPkarr" /\ last.err = ErrCache
    /\ Len(db) = 2 /\ \A id \in Ids : done[id] = 0

\* C17: no step of GetPkarr and no step of republish changes the store, and
\* no step of any operation removes a record from it: a key that has a row
\* keeps one.
C17_ReadersLeaveStore ==
    [][/\ Len(db') >= Len(db)
       /\ \A i \in 1..Len(db) : \E j \in 1..Len(db') : db'[j].key = db[i].key
       /\ (\E p \in Getters : pc'[p] # pc[p] \/ loc'[p] # loc[p]) => db' = db
       /\ last'.ev = "GetPkarr" => db' = db
       /\ (rp' # rp \/ last'.ev = "republish") => db' = db
       /\ (\E id \in Ids : cacheExpire(id)) => db' = db]_vars
C17_Witness ==
    /\ last.ev = "republish" /\ last.cnt = <<0, 2>> /\ Len(db) = 2
    /\ ListRecords(db) # <<>> /\ DOMAIN cache # {}

C20_CacheBoundToIdKey ==
    \A id \in DOMAIN cache :
        Authentic(KeyOfId(id), Unmarshal(cache[id]).Seq, Unmarshal(cache[id]).V,
                  Unmarshal(cache[id]).Sig)

\* the scheduling of the service: the scheduler keeps starting republish and
\* a tick that is running goes on; a goroutine of dht.Put that was started
\* runs; a PublishPkarr past its store write goes on, as does each GetPkarr
Fairness ==
    /\ WF_vars(\E listErr \in {Nil, ErrDB} : republish(listErr))
    /\ WF_vars(\E err \in {Nil, ErrDHT} : republishPut(err))
    /\ WF_vars(\E put \in puts, err \in {Nil, ErrDHT} : PublishPkarrPut(put, err))
    /\ WF_vars(\E p \in Publishers, cacheErr \in {Nil, ErrCache} : PublishPkarrCache(p, cacheErr))
SpecFair == Init /\ [][Next]_vars /\ Fairness

\* the item that the DHT holds for the key of each record of the store
\* carries that record's V, Sig and Seq
DHTAgrees ==
    \A i \in 1..Len(db) :
        /\ recordToBEP44Put(RecordOfRow(db[i])).K \in DOMAIN dht
        /\ dht[recordToBEP44Put(RecordOfRow(db[i])).K]
             = ItemOf(recordToBEP44Put(RecordOfRow(db[i])))
\* a step that is no start of a PublishPkarr, no failure of republish's
\* ListRecords and no failure of a dht.Put of republish
QuietStep ==
    /\ \A p \in Publishers, call \in PublishCalls, dbErr \in {Nil, ErrDB} :
         ~PublishPkarr(p, call[1], call[2], dbErr)
    /\ ~republish(ErrDB)
    /\ ~republishPut(ErrDHT)

\* C19: if from some point on no PublishPkarr starts and no tick of republish
\* fails in ListRecords or in a put, then from some point on the DHT agrees
\* with every record of the store, whatever the puts of the publishes did.
C19_EventualDHTAgreement ==
    (<>[][QuietStep]_vars) => <>[]DHTAgrees
====
